---- MODULE Spec2Model ----
(***************************************************************************)
(* mini-orchestrator: the split -> parallel process -> merge engine of     *)
(* core/base.py, the two jobs of jobs/ingest.py and jobs/prime.py, their   *)
(* helpers of core/utils.py and the command of main.py.                    *)
(*                                                                         *)
(* Conventions of the translation.                                         *)
(*  - Python's Optional[x]: <<>> is None, <<v>> is the value v.            *)
(*  - A collections.Counter (a dict, which keeps insertion order) is the   *)
(*    sequence of its items <<key, count>> in insertion order.             *)
(*  - A float is the exact rational <<n, d>> with d > 0 in lowest terms;   *)
(*    the std_dev entry holds the variance (std_dev squared), and the      *)
(*    square root is taken where the value is formatted.                   *)
(*  - A report string is the sequence of its lines; a line is the record   *)
(*    of the pieces its f-string interpolates (numbers after formatting).  *)
(***************************************************************************)
EXTENDS Integers, Sequences, FiniteSets, TLC

\* ------------------------------------------------------------------------
\* Bounds of the model
\* ------------------------------------------------------------------------
MaxWorkers == 2
MaxResults == 3
MaxRegister == 3
\* the most log files of a directory and ranges of a configuration in a direct call
MaxUnits == 3
\* the most tasks of a process_batch call
MaxTasks == 3

\* ------------------------------------------------------------------------
\* Program constants
\* ------------------------------------------------------------------------
TopUserAgents == 10
FirstPrimes == 20
DefaultStart == 1
DefaultEnd == 1000

None == <<>>
Some(v) == <<v>>

Abs(x) == IF x < 0 THEN -x ELSE x
Min2(a, b) == IF a <= b THEN a ELSE b

RECURSIVE GCD(_, _)
GCD(a, b) == IF b = 0 THEN a ELSE GCD(b, a % b)

\* floor(sqrt(m)) for 0 <= m < 2^31, by bisection (46340 = floor(sqrt(2^31 - 1)))
RECURSIVE ISqrtIn(_, _, _)
ISqrtIn(m, lo, hi) ==
    IF lo >= hi THEN lo
    ELSE LET mid == (lo + hi + 1) \div 2
         IN IF mid * mid <= m THEN ISqrtIn(m, mid, hi) ELSE ISqrtIn(m, lo, mid - 1)
ISqrt(m) == ISqrtIn(m, 0, Min2(m, 46340))

\* ---- floats as exact rationals ------------------------------------------
Frac(n, d) ==
    LET s == IF d < 0 THEN -1 ELSE 1
        g == GCD(Abs(n), Abs(d))
    IN <<(s * n) \div g, (s * d) \div g>>
FInt(n) == <<n, 1>>
FAdd(a, b) == Frac(a[1] * b[2] + b[1] * a[2], a[2] * b[2])
FSub(a, b) == Frac(a[1] * b[2] - b[1] * a[2], a[2] * b[2])
FMul(a, b) == Frac(a[1] * b[1], a[2] * b[2])
FDivInt(a, k) == Frac(a[1], a[2] * k)
FLeq(a, b) == a[1] * b[2] <= b[1] * a[2]

RECURSIVE FSum(_)
FSum(s) == IF s = <<>> THEN FInt(0) ELSE FAdd(s[1], FSum(Tail(s)))

RECURSIVE FMin(_)
FMin(s) ==
    IF Len(s) = 1 THEN s[1]
    ELSE LET m == FMin(Tail(s)) IN IF FLeq(s[1], m) THEN s[1] ELSE m

RECURSIVE FMax(_)
FMax(s) ==
    IF Len(s) = 1 THEN s[1]
    ELSE LET m == FMax(Tail(s)) IN IF FLeq(m, s[1]) THEN s[1] ELSE m

RECURSIVE FInsert(_, _)
FInsert(x, s) ==
    IF s = <<>> THEN <<x>>
    ELSE IF FLeq(x, s[1]) THEN <<x>> \o s ELSE <<s[1]>> \o FInsert(x, Tail(s))

RECURSIVE FSort(_)
FSort(s) == IF s = <<>> THEN <<>> ELSE FInsert(s[1], FSort(Tail(s)))

RECURSIVE Repeat(_, _)
Repeat(x, k) == IF k <= 0 THEN <<>> ELSE <<x>> \o Repeat(x, k - 1)

\* f"{x:.2f}" of a non-negative float, as the integer number of hundredths
\* (round-half-even on the exact value)
Format2f(x) ==
    LET q == (100 * x[1]) \div x[2]
        r == (100 * x[1]) % x[2]
    IN IF 2 * r > x[2] THEN q + 1
       ELSE IF 2 * r < x[2] THEN q
       ELSE IF q % 2 = 0 THEN q ELSE q + 1

\* f"{sqrt(v):.2f}" for the variance v: round(100 * sqrt(v)) in hundredths
Format2fSqrt(v) == (ISqrt((40000 * v[1]) \div v[2]) + 1) \div 2

\* f"{x:.6f}" of a non-negative float, as the integer number of millionths
Format6f(x) ==
    LET q == (1000000 * x[1]) \div x[2]
        r == (1000000 * x[1]) % x[2]
    IN IF 2 * r > x[2] THEN q + 1
       ELSE IF 2 * r < x[2] THEN q
       ELSE IF q % 2 = 0 THEN q ELSE q + 1

\* ---- collections.Counter ------------------------------------------------
EmptyCounter == <<>>

CounterHas(c, k) == \E i \in 1..Len(c) : c[i][1] = k
CounterGet(c, k) ==
    IF CounterHas(c, k) THEN (CHOOSE it \in {c[i] : i \in 1..Len(c)} : it[1] = k)[2] ELSE 0

\* c[k] += n: an existing key keeps its place, a new key goes last
CounterAdd(c, k, n) ==
    IF CounterHas(c, k)
    THEN [i \in 1..Len(c) |-> IF c[i][1] = k THEN <<k, c[i][2] + n>> ELSE c[i]]
    ELSE Append(c, <<k, n>>)

\* Counter.update(other): other's items in other's order
RECURSIVE CounterUpdate(_, _)
CounterUpdate(c, other) ==
    IF other = <<>> THEN c
    ELSE CounterUpdate(CounterAdd(c, other[1][1], other[1][2]), Tail(other))

\* stable insertion into a sequence sorted by count, largest first
RECURSIVE InsertByCount(_, _)
InsertByCount(it, s) ==
    IF s = <<>> THEN <<it>>
    ELSE IF s[1][2] >= it[2] THEN <<s[1]>> \o InsertByCount(it, Tail(s))
    ELSE <<it>> \o s

RECURSIVE MostCommonFrom(_, _)
MostCommonFrom(c, acc) ==
    IF c = <<>> THEN acc ELSE MostCommonFrom(Tail(c), InsertByCount(c[1], acc))

\* Counter.most_common(): sorted(items, key=count, reverse=True), a stable sort
most_common(c) == MostCommonFrom(c, <<>>)
most_common_n(c, n) == SubSeq(most_common(c), 1, Min2(n, Len(c)))

\* ------------------------------------------------------------------------
\* core/utils.py
\* ------------------------------------------------------------------------

\* statistics.median of a non-empty list
median(values) ==
    LET s == FSort(values)
        n == Len(s)
    IN IF n % 2 = 1 THEN s[(n + 1) \div 2]
       ELSE FDivInt(FAdd(s[n \div 2], s[n \div 2 + 1]), 2)

\* statistics.stdev squared: sum((x - mean)^2) / (n - 1), for n > 1
variance(values) ==
    LET n == Len(values)
        m == FDivInt(FSum(values), n)
        sq == [i \in 1..n |-> FMul(FSub(values[i], m), FSub(values[i], m))]
    IN FDivInt(FSum(sq), n - 1)

\* calculate_statistics(values); {} is None, a filled dict is Some(record)
calculate_statistics(values) ==
    IF values = <<>> THEN None
    ELSE Some([count   |-> Len(values),
               mean    |-> FDivInt(FSum(values), Len(values)),
               median  |-> median(values),
               min     |-> FMin(values),
               max     |-> FMax(values),
               std_dev |-> IF Len(values) > 1 THEN variance(values) ELSE FInt(0)])

\* A log line after line.strip() and split(', '): blank says the stripped line
\* is empty; parts are main_parts. A part is described by what the parser
\* reads of it:
\*   tag    "req"  : starts with '[' and holds ']'  (method = text between)
\*          "status": starts with 'status='         (num = the int after '=')
\*          "time" : its time part starts with 'time=' (num = the float in it)
\*          "text" : none of these
\*   num    None when int()/float() raises ValueError on the text
\*   ua     the text after ' user-agent=', None when the part has none
Part(tag, method, num, ua) == [tag |-> tag, method |-> method, num |-> num, ua |-> ua]

\* parse_log_line(line): None, or Some(parsed dict)
parse_log_line(line) ==
    IF line.blank THEN None
    ELSE IF Len(line.parts) < 2 THEN None
    ELSE IF line.parts[1].tag # "req" THEN None
    ELSE IF line.parts[2].tag # "status" THEN None
    ELSE IF line.parts[2].num = None THEN None            \* int() raised ValueError
    ELSE IF Len(line.parts) >= 3
              /\ line.parts[3].tag = "time" /\ line.parts[3].num = None
         THEN None                                         \* float() raised ValueError
    ELSE Some([method     |-> line.parts[1].method,
               status     |-> line.parts[2].num[1],
               time_ms    |-> IF Len(line.parts) >= 3 /\ line.parts[3].tag = "time"
                              THEN FInt(line.parts[3].num[1]) ELSE FInt(0),
               user_agent |-> IF Len(line.parts) >= 3 THEN line.parts[3].ua ELSE None])

\* get_status_class(status): f"{status // 100}xx", for 0 <= status <= 999
StatusClassNames == <<"0xx", "1xx", "2xx", "3xx", "4xx", "5xx", "6xx", "7xx", "8xx", "9xx">>
get_status_class(status) == StatusClassNames[(status \div 100) + 1]

\* One line of a report: the label of the f-string and what it interpolates.
\* "{n:,}" of an integer is kept as the integer (the formatting is injective).
ReportLine(label, key, num) == [label |-> label, key |-> key, num |-> num, list |-> <<>>]
ReportList(label, list) == [label |-> label, key |-> "", num |-> 0, list |-> list]
BlankLine == ReportLine("", "", 0)

CounterLines(items) == [i \in 1..Len(items) |-> ReportLine("  item", items[i][1], items[i][2])]

\* stats.get(key, 0) of the latency dict, formatted
StatsLines(stats) ==
    IF stats = None
    THEN << ReportLine("  Count", "", 0), ReportLine("  Mean", "", 0),
            ReportLine("  Median", "", 0), ReportLine("  Min", "", 0),
            ReportLine("  Max", "", 0), ReportLine("  Std Dev", "", 0) >>
    ELSE << ReportLine("  Count", "", stats[1].count),
            ReportLine("  Mean", "", Format2f(stats[1].mean)),
            ReportLine("  Median", "", Format2f(stats[1].median)),
            ReportLine("  Min", "", Format2f(stats[1].min)),
            ReportLine("  Max", "", Format2f(stats[1].max)),
            ReportLine("  Std Dev", "", Format2fSqrt(stats[1].std_dev)) >>

\* format_output(data), for the dict merge_results builds (all five keys present)
format_output(data) ==
    << ReportLine("Total Requests", "", data.total_requests), BlankLine >>
    \o << ReportLine("Requests by Method:", "", 0) >>
    \o CounterLines(most_common(data.by_method))
    \o << BlankLine >>
    \o << ReportLine("Requests by Status Class:", "", 0) >>
    \o CounterLines(most_common(data.by_status_class))
    \o << BlankLine >>
    \o << ReportLine("Latency Statistics (ms):", "", 0) >>
    \o StatsLines(data.latency_stats)
    \o << BlankLine >>
    \o << ReportLine("Top User Agents:", "", 0) >>
    \o CounterLines(most_common_n(data.user_agents, TopUserAgents))

\* load_json_file(file_path) of a file whose state is f: the parsed value, or
\* the ValueError it raises for a missing or malformed file
load_json_file(f) ==
    IF f.kind \in {"missing", "malformed"}
    THEN [raised |-> Some("ValueError"), value |-> None]
    ELSE IF f.kind = "directory"
    THEN [raised |-> Some("IsADirectoryError"), value |-> None]   \* not wrapped
    ELSE [raised |-> None, value |-> Some(f.config)]

\* ------------------------------------------------------------------------
\* core/base.py: JobResult
\* ------------------------------------------------------------------------
JobResult(success, data, error, metadata) ==
    [success |-> success, data |-> data, error |-> error, metadata |-> metadata]

\* the dict {}
EmptyDict == <<>>

\* Python truth value of result.data: None and the empty dict are false, a
\* filled dict is true
Truthy(data) == data # None /\ DOMAIN data[1] # {}

\* the units of s whose 0-based index i has i % n = b, in order
RECURSIVE Bucket(_, _, _, _)
Bucket(s, i, n, b) ==
    IF s = <<>> THEN <<>>
    ELSE (IF i % n = b THEN <<s[1]>> ELSE <<>>) \o Bucket(Tail(s), i + 1, n, b)

\* chunks[i % num_workers].append(unit) over all units; then the empty chunks
\* are filtered out. Needs num_workers >= 1.
RoundRobin_keeps_empty(units, num_workers) ==
    [b \in 1..num_workers |-> Bucket(units, 0, num_workers, b - 1)]
RoundRobin(units, num_workers) ==
    LET chunks == [b \in 1..num_workers |-> Bucket(units, 0, num_workers, b - 1)]
    IN SelectSeq(chunks, LAMBDA chunk : chunk # <<>>)

\* ------------------------------------------------------------------------
\* jobs/ingest.py: LogIngestJob
\* ------------------------------------------------------------------------

\* split_workload(path, num_workers), log_files being what the glob of path
\* yields (nothing for a path that is no directory). With files present,
\* i % 0 raises ZeroDivisionError and chunks[0] of the empty list (a negative
\* num_workers) raises IndexError; neither is caught.
LogIngestJob_split_workload(log_files, num_workers) ==
    IF log_files = <<>> THEN [raised |-> None, chunks |-> <<>>]
    ELSE IF num_workers = 0 THEN [raised |-> Some("ZeroDivisionError"), chunks |-> <<>>]
    ELSE IF num_workers < 0 THEN [raised |-> Some("IndexError"), chunks |-> <<>>]
    ELSE [raised |-> None, chunks |-> RoundRobin(log_files, num_workers)]

IngestZero ==
    [total_requests |-> 0, by_method |-> EmptyCounter, by_status_class |-> EmptyCounter,
     latencies |-> <<>>, user_agents |-> EmptyCounter]

\* the body of "for line in f" for one line
IngestLine(acc, line) ==
    LET parsed == parse_log_line(line)
    IN IF parsed = None THEN acc
       ELSE [total_requests  |-> acc.total_requests + 1,
             by_method       |-> CounterAdd(acc.by_method, parsed[1].method, 1),
             by_status_class |-> CounterAdd(acc.by_status_class,
                                            get_status_class(parsed[1].status), 1),
             latencies       |-> Append(acc.latencies, parsed[1].time_ms),
             user_agents     |-> IF parsed[1].user_agent # None /\ parsed[1].user_agent[1] # ""
                                 THEN CounterAdd(acc.user_agents, parsed[1].user_agent[1], 1)
                                 ELSE acc.user_agents]

RECURSIVE IngestLines(_, _)
IngestLines(acc, lines) ==
    IF lines = <<>> THEN acc ELSE IngestLines(IngestLine(acc, lines[1]), Tail(lines))

\* A file is [lines, error_after]: error_after = Some(n) says open or read
\* raises once n lines were read (n = 0: the open itself); the handler of
\* the inner try logs it and goes on with the next file.
LinesRead(file) ==
    IF file.error_after = None THEN file.lines
    ELSE SubSeq(file.lines, 1, Min2(file.error_after[1], Len(file.lines)))

RECURSIVE IngestFiles(_, _)
IngestFiles(acc, chunk) ==
    IF chunk = <<>> THEN acc
    ELSE IngestFiles(IngestLines(acc, LinesRead(chunk[1])), Tail(chunk))

LogIngestJob_process_chunk(chunk) ==
    LET acc == IngestFiles(IngestZero, chunk)
    IN JobResult(TRUE,
                 Some([total_requests  |-> acc.total_requests,
                       by_method       |-> acc.by_method,
                       by_status_class |-> acc.by_status_class,
                       latency_stats   |-> calculate_statistics(acc.latencies),
                       user_agents     |-> acc.user_agents]),
                 None,
                 Some([files_processed |-> Len(chunk)]))

IngestMergeZero ==
    [total_requests |-> 0, by_method |-> EmptyCounter, by_status_class |-> EmptyCounter,
     all_latencies |-> <<>>, user_agents |-> EmptyCounter, files_processed |-> 0,
     raised |-> None]

\* "if result.success and result.data": the results merge_results aggregates
LogIngestJob_merge_guard_always(result) == TRUE
LogIngestJob_merge_guard(result) == result.success /\ Truthy(result.data)

\* the body of "for result in results" of merge_results; result.data[...] of
\* a data that is None raises TypeError, which nothing in merge_results catches
LogIngestJob_merge_one(acc, result) ==
    IF acc.raised # None THEN acc
    ELSE IF LogIngestJob_merge_guard(result)
    THEN IF result.data = None THEN [acc EXCEPT !.raised = Some("TypeError")] ELSE
         LET data == result.data[1]
         IN [raised |-> None,
             total_requests  |-> acc.total_requests + data.total_requests,
             by_method       |-> CounterUpdate(acc.by_method, data.by_method),
             by_status_class |-> CounterUpdate(acc.by_status_class, data.by_status_class),
             all_latencies   |-> IF data.latency_stats # None
                                 THEN acc.all_latencies
                                      \o Repeat(data.latency_stats[1].mean,
                                                data.latency_stats[1].count)
                                 ELSE acc.all_latencies,
             user_agents     |-> CounterUpdate(acc.user_agents, data.user_agents),
             files_processed |-> IF result.metadata # None
                                 THEN acc.files_processed + result.metadata[1].files_processed
                                 ELSE acc.files_processed]
    ELSE acc       \* logger.warning only

RECURSIVE LogIngestJob_aggregate(_, _)
LogIngestJob_aggregate(acc, results) ==
    IF results = <<>> THEN acc
    ELSE LogIngestJob_aggregate(LogIngestJob_merge_one(acc, results[1]), Tail(results))

\* final_data of merge_results, from the aggregated counters
LogIngestJob_final_data(acc) ==
    [total_requests  |-> acc.total_requests,
     by_method       |-> acc.by_method,
     by_status_class |-> acc.by_status_class,
     latency_stats   |-> calculate_statistics(acc.all_latencies),
     user_agents     |-> acc.user_agents]

\* the logger.warning of merge_results' else branch: result.error of every
\* result that is not aggregated, in order
LogIngestJob_merge_warnings(results) ==
    LET skipped == SelectSeq(results, LAMBDA r : ~LogIngestJob_merge_guard(r))
    IN [i \in 1..Len(skipped) |-> skipped[i].error]

\* merge_results(results): the report it returns, or the exception it raises
LogIngestJob_merge_results(results) ==
    LET acc == LogIngestJob_aggregate(IngestMergeZero, results)
    IN IF acc.raised # None THEN [raised |-> acc.raised, report |-> None]
       ELSE [raised |-> None, report |-> Some(format_output(LogIngestJob_final_data(acc)))]

\* ------------------------------------------------------------------------
\* jobs/prime.py: PrimeCalculationJob
\* ------------------------------------------------------------------------

\* A range of the configuration is [start, end, numeric]: start and end are
\* None when the key is absent; numeric = FALSE says a value present is not
\* a number (a JSON string), so that comparing it with 2 raises TypeError.
\* A chunk entry is the tuple (start, end) with the defaults filled in.
RangeTuple(range_data) ==
    [start   |-> IF range_data.start = None THEN DefaultStart ELSE range_data.start[1],
     end     |-> IF range_data.end = None THEN DefaultEnd ELSE range_data.end[1],
     numeric |-> range_data.numeric]

\* split_workload(path, num_workers), f being the state of the file at path.
\* Every exception of the body (load_json_file's ValueError, i % 0, the
\* IndexError of a negative num_workers) is caught and [] returned.
PrimeCalculationJob_split_workload(f, num_workers) ==
    LET loaded == load_json_file(f)
    IN IF loaded.raised # None THEN [raised |-> None, chunks |-> <<>>]
       ELSE LET config == loaded.value[1]
                ranges == IF config.ranges = None THEN <<>> ELSE config.ranges[1]
            IN IF ranges = <<>> THEN [raised |-> None, chunks |-> <<>>]
               ELSE IF num_workers <= 0 THEN [raised |-> None, chunks |-> <<>>]
               ELSE [raised |-> None,
                     chunks |-> RoundRobin([i \in 1..Len(ranges) |-> RangeTuple(ranges[i])],
                                           num_workers)]

\* _is_prime(n): trial division by the odd i of range(3, int(sqrt(n)) + 1, 2)
PrimeCalculationJob_is_prime_open(n) ==
    IF n < 2 THEN FALSE
    ELSE IF n = 2 THEN TRUE
    ELSE IF n % 2 = 0 THEN FALSE
    ELSE LET sqrt_n == ISqrt(n)
         IN \A i \in 3..(sqrt_n - 1) : (i % 2 = 1) => (n % i # 0)
PrimeCalculationJob_is_prime(n) ==
    IF n < 2 THEN FALSE
    ELSE IF n = 2 THEN TRUE
    ELSE IF n % 2 = 0 THEN FALSE
    ELSE LET sqrt_n == ISqrt(n) + 1
         IN \A i \in 3..(sqrt_n - 1) : (i % 2 = 1) => (n % i # 0)

RECURSIVE PrimesFrom(_, _)
PrimesFrom(num, end) ==
    IF num > end THEN <<>>
    ELSE (IF PrimeCalculationJob_is_prime(num) THEN <<num>> ELSE <<>>)
         \o PrimesFrom(num + 1, end)

\* _find_primes_in_range(start, end)
PrimeCalculationJob_find_primes_in_range(start, end) ==
    PrimesFrom(IF start < 2 THEN 2 ELSE start, end)

RECURSIVE SeqMax(_)
SeqMax(s) == IF Len(s) = 1 THEN s[1]
             ELSE LET m == SeqMax(Tail(s)) IN IF s[1] >= m THEN s[1] ELSE m
RECURSIVE SeqMin(_)
SeqMin(s) == IF Len(s) = 1 THEN s[1]
             ELSE LET m == SeqMin(Tail(s)) IN IF s[1] <= m THEN s[1] ELSE m

RECURSIVE IntSort(_)
IntSort(s) ==
    IF s = <<>> THEN <<>>
    ELSE LET m == SeqMin(s)
             i == CHOOSE j \in 1..Len(s) : s[j] = m
         IN <<m>> \o IntSort(SubSeq(s, 1, i - 1) \o SubSeq(s, i + 1, Len(s)))

\* the loop "for start, end in chunk"
RECURSIVE PrimeRanges(_, _)
PrimeRanges(acc, chunk) ==
    IF chunk = <<>> THEN acc
    ELSE PrimeRanges(
           [all_primes |-> acc.all_primes
                \o PrimeCalculationJob_find_primes_in_range(chunk[1].start, chunk[1].end),
            total_numbers_checked |-> acc.total_numbers_checked
                + (chunk[1].end - chunk[1].start + 1)],
           Tail(chunk))

\* process_chunk(chunk): a value that is no number raises TypeError inside
\* the try, which returns the failure JobResult with str(e)
PrimeCalculationJob_process_chunk(chunk) ==
    IF \E i \in 1..Len(chunk) : ~chunk[i].numeric
    THEN JobResult(FALSE, None, Some("TypeError: not supported between str and int"), None)
    ELSE LET acc == PrimeRanges([all_primes |-> <<>>, total_numbers_checked |-> 0], chunk)
             n == Len(acc.all_primes)
         IN JobResult(TRUE,
              Some([primes |-> acc.all_primes,
                    statistics |->
                      [primes_found |-> n,
                       total_numbers_checked |-> acc.total_numbers_checked,
                       largest_prime |-> IF n > 0 THEN SeqMax(acc.all_primes) ELSE 0,
                       smallest_prime |-> IF n > 0 THEN SeqMin(acc.all_primes) ELSE 0,
                       prime_density |-> IF acc.total_numbers_checked > 0
                                         THEN Frac(n, acc.total_numbers_checked)
                                         ELSE FInt(0)],
                    ranges_processed |-> Len(chunk)]),
              None,
              Some([ranges_processed |-> Len(chunk)]))

\* the body of "for result in results" of merge_results; the statistics dict
\* is asked for 'ranges_processed' with .get(..., 0)
PrimeCalculationJob_merge_guard(result) == result.success /\ Truthy(result.data)

PrimeCalculationJob_merge_one(acc, result) ==
    IF acc.raised # None THEN acc
    ELSE IF PrimeCalculationJob_merge_guard(result)
    THEN IF result.data = None THEN [acc EXCEPT !.raised = Some("TypeError")] ELSE
         LET data == result.data[1]
         IN [raised |-> None,
             all_primes |-> acc.all_primes \o data.primes,
             total_numbers_checked |-> acc.total_numbers_checked
                                        + data.statistics.total_numbers_checked,
             total_ranges_processed |-> acc.total_ranges_processed
                 + (IF "ranges_processed" \in DOMAIN data.statistics
                    THEN data.statistics["ranges_processed"] ELSE 0)]
    ELSE acc       \* logger.warning only

RECURSIVE PrimeCalculationJob_aggregate(_, _)
PrimeCalculationJob_aggregate(acc, results) ==
    IF results = <<>> THEN acc
    ELSE PrimeCalculationJob_aggregate(PrimeCalculationJob_merge_one(acc, results[1]),
                                       Tail(results))

PrimeMergeZero ==
    [all_primes |-> <<>>, total_numbers_checked |-> 0, total_ranges_processed |-> 0,
     raised |-> None]

\* overall_stats of merge_results, from the aggregated values
PrimeCalculationJob_overall_stats(acc) ==
    LET n == Len(acc.all_primes)
    IN [all_primes |-> acc.all_primes,
        total_primes_found |-> n,
        total_numbers_checked |-> acc.total_numbers_checked,
        largest_prime |-> IF n > 0 THEN SeqMax(acc.all_primes) ELSE 0,
        smallest_prime |-> IF n > 0 THEN SeqMin(acc.all_primes) ELSE 0,
        prime_density |-> IF n > 0 /\ acc.total_numbers_checked > 0
                          THEN Frac(n, acc.total_numbers_checked) ELSE FInt(0),
        ranges_processed |-> acc.total_ranges_processed]

\* the output_lines of merge_results
PrimeCalculationJob_output_lines(st) ==
       << ReportLine("Prime Number Calculation Results", "", 0),
          ReportLine("========================================", "", 0),
          ReportLine("Total Primes Found", "", st.total_primes_found),
          ReportLine("Total Numbers Checked", "", st.total_numbers_checked),
          ReportLine("Prime Density", "", Format6f(st.prime_density)),
          ReportLine("Largest Prime", "", st.largest_prime),
          ReportLine("Smallest Prime", "", st.smallest_prime),
          ReportLine("Ranges Processed", "", st.ranges_processed) >>
       \o (IF st.all_primes # <<>>
           THEN LET sorted == IntSort(st.all_primes)
                IN << BlankLine, ReportLine("First 20 Primes Found:", "", 0),
                      ReportList("primes", SubSeq(sorted, 1, Min2(FirstPrimes, Len(sorted)))) >>
           ELSE <<>>)

\* the logger.warning of merge_results' else branch
PrimeCalculationJob_merge_warnings(results) ==
    LET skipped == SelectSeq(results, LAMBDA r : ~PrimeCalculationJob_merge_guard(r))
    IN [i \in 1..Len(skipped) |-> skipped[i].error]

\* merge_results(results): the report it returns, or the exception it raises
PrimeCalculationJob_merge_results(results) ==
    LET acc == PrimeCalculationJob_aggregate(PrimeMergeZero, results)
    IN IF acc.raised # None THEN [raised |-> acc.raised, report |-> None]
       ELSE [raised |-> None,
             report |-> Some(PrimeCalculationJob_output_lines(
                               PrimeCalculationJob_overall_stats(acc)))]

\* ------------------------------------------------------------------------
\* Inputs: log lines, log files, directories and configuration files
\* ------------------------------------------------------------------------
LogLine(parts) == [blank |-> FALSE, parts |-> parts]
\* "[GET] /a, status=200, time=10ms user-agent=ua1"
LineGet == LogLine(<< Part("req", "GET", None, None), Part("status", "", Some(200), None),
                      Part("time", "", Some(10), Some("ua1")) >>)
\* "[POST] /b, status=404, time=20ms user-agent=ua2"
LinePost == LogLine(<< Part("req", "POST", None, None), Part("status", "", Some(404), None),
                       Part("time", "", Some(20), Some("ua2")) >>)
\* "[GET] /c, status=500"
LineShort == LogLine(<< Part("req", "GET", None, None), Part("status", "", Some(500), None) >>)
\* "bad line"
LineText == LogLine(<< Part("text", "", None, None) >>)
\* "[GET] /d, status=abc, time=5ms"
LineBadStatus == LogLine(<< Part("req", "GET", None, None), Part("status", "", None, None),
                            Part("time", "", Some(5), None) >>)
LineBlank == [blank |-> TRUE, parts |-> <<>>]

LogFile(lines, error_after) == [lines |-> lines, error_after |-> error_after]
FileA == LogFile(<<LineGet, LineText>>, None)
FileB == LogFile(<<LinePost, LineBlank>>, None)
FileC == LogFile(<<LineShort, LinePost, LineBadStatus>>, None)
FileUnreadable == LogFile(<<LineGet>>, Some(0))

Range(start, end) == [start |-> Some(start), end |-> Some(end), numeric |-> TRUE]
RangeNotNumeric == [start |-> Some(0), end |-> Some(0), numeric |-> FALSE]

\* A path of the file system: what Path(path) tells of it, what its glob
\* yields (log_files) and what opening it as JSON gives (json).
PathOf(empty, exists, is_dir, log_files, json) ==
    [empty |-> empty, exists |-> exists, is_dir |-> is_dir, is_file |-> exists /\ ~is_dir,
     log_files |-> log_files, json |-> json]
Dir(log_files) == PathOf(FALSE, TRUE, TRUE, log_files, [kind |-> "directory", config |-> [ranges |-> None]])
ConfigFile(kind, ranges) ==
    PathOf(FALSE, TRUE, FALSE, <<>>, [kind |-> kind, config |-> [ranges |-> ranges]])
\* a path that does not exist
PathMissing == PathOf(FALSE, FALSE, FALSE, <<>>, [kind |-> "missing", config |-> [ranges |-> None]])
\* the empty string: Path("") is ".", a directory; open("") raises FileNotFoundError
PathEmpty == PathOf(TRUE, TRUE, TRUE, <<FileA>>, [kind |-> "missing", config |-> [ranges |-> None]])

\* the units a directory or configuration holds grow with the worker bound,
\* so that every worker can get a chunk
AllFiles == <<FileA, FileB, FileC, FileUnreadable, FileA>>
AllRanges == <<Range(1, 20), Range(30, 20), Range(0, 1), Range(14, 16), Range(1, 20)>>

Paths ==
    { PathMissing, PathEmpty, Dir(<<>>), Dir(<<FileA, FileA>>), Dir(<<FileUnreadable>>),
      Dir(SubSeq(AllFiles, 1, Min2(MaxWorkers + 1, Len(AllFiles)))),
      ConfigFile("malformed", None), ConfigFile("ok", None), ConfigFile("ok", Some(<<>>)),
      ConfigFile("ok", Some(<<Range(1, 20)>>)),
      ConfigFile("ok", Some(<<Range(2, 3), RangeNotNumeric>>)),
      ConfigFile("ok", Some(SubSeq(AllRanges, 1, Min2(MaxWorkers + 1, Len(AllRanges))))) }

Features == {"ingest", "prime"}
\* a --feature value that is not among the choices of the parser
OtherFeatures == {"report"}
Modes == {"threading", "process"}
\* a mode string that is neither; 'thread' is what the design text calls it
OtherModes == {"thread"}
Workers == (-1)..MaxWorkers
\* str(e) of the exception a unit raises
ExcMessages == {"", "boom"}

\* ------------------------------------------------------------------------
\* State
\* ------------------------------------------------------------------------
VARIABLES
    via,        \* "main": the command of main.py; "execute": a direct call of BaseJob.execute;
                \* "process_parallel": a direct call of BaseJob._process_parallel
    args,       \* feature, path, worker, mode (argparse.Namespace / execute's parameters)
    pc,         \* where the caller is
    chunks,     \* execute's chunks
    pool,       \* the executor of _process_parallel: "none", "alive", "shutdown"
    futures,    \* future_to_chunk, in submission order: one record per submitted unit
    yielded,    \* the futures as_completed has yielded so far
    results,    \* _process_parallel's results
    report,     \* what execute returned: None or Some(report)
    raised,     \* the exception that left execute or main's try body: None or Some(name)
    exit_code,  \* the command's exit status: None while running
    stdout,     \* the report main printed: None or Some(report)
    calls,      \* how often split_workload, merge_results, an executor and its exit were entered
    merged,     \* the sequence merge_results was called with: None or Some(results)
    mjob, mresults, mperm, mreports,  \* the merge_results calls of SpecMerge
    reg_features,  \* FeatureRegistry._features: the dict, in insertion order
    reg_log,       \* every register call made so far, in order
    reg_got,       \* the last get_feature call: None or Some([name, instance])
    call,          \* a direct call of a job's methods: None or Some(its arguments)
    ret,           \* what that call returned: None or Some(value)
    bworker,       \* the worker class whose process_batch is called
    btasks,        \* process_batch's tasks
    bmax,          \* process_batch's max_workers
    bpc,           \* where process_batch is
    bfutures,      \* future_to_task, in submission order
    byielded,      \* the futures as_completed has yielded so far
    bresults       \* process_batch's results

engineVars == <<via, args, pc, chunks, pool, futures, yielded, results, report, raised,
                exit_code, stdout, calls, merged>>
mergeVars == <<mjob, mresults, mperm, mreports>>
registryVars == <<reg_features, reg_log, reg_got>>
callVars == <<call, ret>>
batchVars == <<bworker, btasks, bmax, bpc, bfutures, byielded, bresults>>
vars == <<via, args, pc, chunks, pool, futures, yielded, results, report, raised,
          exit_code, stdout, calls, merged, mjob, mresults, mperm, mreports,
          reg_features, reg_log, reg_got, call, ret,
          bworker, btasks, bmax, bpc, bfutures, byielded, bresults>>

\* ------------------------------------------------------------------------
\* core/base.py: BaseJob, and main.py
\* ------------------------------------------------------------------------
split_workload(feature, path, num_workers) ==
    IF feature = "ingest" THEN LogIngestJob_split_workload(path.log_files, num_workers)
    ELSE PrimeCalculationJob_split_workload(path.json, num_workers)

process_chunk(feature, chunk) ==
    IF feature = "ingest" THEN LogIngestJob_process_chunk(chunk)
    ELSE PrimeCalculationJob_process_chunk(chunk)

merge_results(feature, rs) ==
    IF feature = "ingest" THEN LogIngestJob_merge_results(rs)
    ELSE PrimeCalculationJob_merge_results(rs)

merge_warnings(feature, rs) ==
    IF feature = "ingest" THEN LogIngestJob_merge_warnings(rs)
    ELSE PrimeCalculationJob_merge_warnings(rs)

\* validate_arguments(args): None, or the ValueError it raises
validate_arguments_skipped(a) == None
validate_arguments(a) ==
    IF ~a.path.exists THEN Some("ValueError")
    ELSE IF a.feature = "ingest" /\ ~a.path.is_dir THEN Some("ValueError")
    ELSE IF a.feature = "prime" /\ ~a.path.is_file THEN Some("ValueError")
    ELSE IF a.worker < 1 THEN Some("ValueError")
    ELSE None

\* max_workers of the executor _process_parallel creates
max_workers_lenChunks(cs, num_workers) == Len(cs)
max_workers_plusOne(cs, num_workers) == num_workers + 1
max_workers(cs, num_workers) == num_workers

\* one round of the as_completed loop for a finished future: future.result()
\* returns the JobResult or raises the unit's exception, which the handler
\* turns into a failure JobResult with error = str(e)
CollectFailureWithData(rs, future) ==
    IF future.exception = None
    THEN [results |-> Append(rs, future.result[1]), raised |-> None]
    ELSE [results |-> Append(rs, JobResult(FALSE, Some(future.exception[1]), None, None)),
          raised |-> None]
CollectDropsFailure(rs, future) ==
    IF future.exception = None
    THEN [results |-> Append(rs, future.result[1]), raised |-> None]
    ELSE [results |-> rs, raised |-> None]
CollectPropagates(rs, future) ==
    IF future.exception = None
    THEN [results |-> Append(rs, future.result[1]), raised |-> None]
    ELSE [results |-> rs, raised |-> Some("Exception")]
collect_future(rs, future) ==
    IF future.exception = None
    THEN [results |-> Append(rs, future.result[1]), raised |-> None]
    ELSE [results |-> Append(rs, JobResult(FALSE, None, Some(future.exception[1]), None)),
          raised |-> None]

\* the exit of "with ...Executor(...) as executor": shutdown(wait=True)
executor_exit_leaks(p) == p
executor_exit(p) == "shutdown"

\* a worker of the pool takes the pending unit i: the pool runs at most
\* max_workers units at once and leaves no pending unit out
Running(fs) == {j \in 1..Len(fs) : fs[j].state = "running"}
worker_takes_first(fs, i, cap) ==
    i = 1 /\ fs[i].state = "pending" /\ Cardinality(Running(fs)) < cap
worker_takes(fs, i, cap) ==
    fs[i].state = "pending" /\ Cardinality(Running(fs)) < cap

Finished(fs) == {j \in 1..Len(fs) : fs[j].state = "finished"}

\* concurrent.futures.as_completed(future_to_chunk): the futures that were
\* finished when it was called come first, in the iteration order of a set
\* (any order); the others follow in the order in which they finish
as_completed_yields(fs, yd, i) ==
    /\ fs[i].state = "finished"
    /\ i \notin yd
    /\ \/ fs[i].early
       \/ /\ \A j \in 1..Len(fs) : fs[j].early => j \in yd
          /\ \A j \in Finished(fs) \ yd : fs[i].done <= fs[j].done

\* ------------------------------------------------------------------------
\* core/registry.py: FeatureRegistry. _features is a dict, kept here as the
\* sequence of its items in insertion order; a class is known by its name.
\* ------------------------------------------------------------------------
JobClasses == {"LogIngestJob", "PrimeCalculationJob"}

FeatureRegistry_has_feature(fs, name) == \E i \in 1..Len(fs) : fs[i].name = name

FeatureRegistry_register_keeps(fs, name, feature_class) ==
    IF FeatureRegistry_has_feature(fs, name) THEN fs
    ELSE Append(fs, [name |-> name, class |-> feature_class])
FeatureRegistry_register(fs, name, feature_class) ==
    IF FeatureRegistry_has_feature(fs, name)
    THEN [i \in 1..Len(fs) |-> IF fs[i].name = name
                               THEN [name |-> name, class |-> feature_class]
                               ELSE fs[i]]
    ELSE Append(fs, [name |-> name, class |-> feature_class])

\* get_feature(name): None, or feature_class(), an instance of the class
FeatureRegistry_get_feature(fs, name) ==
    IF ~FeatureRegistry_has_feature(fs, name) THEN None
    ELSE LET i == CHOOSE j \in 1..Len(fs) : fs[j].name = name
         IN Some([instance_of |-> fs[i].class])

FeatureRegistry_list_features(fs) == [i \in 1..Len(fs) |-> fs[i].name]

\* the registry once main.py has imported jobs.ingest and jobs.prime
ImportedJobs ==
    FeatureRegistry_register(FeatureRegistry_register(<<>>, "ingest", "LogIngestJob"),
                             "prime", "PrimeCalculationJob")
ImportLog == << [name |-> "ingest", class |-> "LogIngestJob"],
                [name |-> "prime", class |-> "PrimeCalculationJob"] >>

\* chunks given to _process_parallel(chunks, num_workers, mode) of a
\* PrimeCalculationJob by a caller: one range per chunk, one chunk more than
\* the pool has workers
DirectChunks(num_workers) ==
    { [i \in 1..(num_workers + 1) |-> <<RangeTuple(AllRanges[i])>>] }

NoCalls == [split_workload |-> 0, merge_results |-> 0, executor |-> 0, shutdown |-> 0,
            as_completed |-> 0]

InitMerge ==
    /\ mjob = "none" /\ mresults = <<>> /\ mperm = <<>> /\ mreports = None

\* no direct call of a job's methods, no process_batch call
InitCalls ==
    /\ call = None /\ ret = None
InitBatch ==
    /\ bworker = "none" /\ btasks = <<>> /\ bmax = None /\ bpc = "idle"
    /\ bfutures = <<>> /\ byielded = {} /\ bresults = <<>>

Init ==
    /\ via \in {"main", "execute", "process_parallel"}
    /\ args \in [feature : Features \cup OtherFeatures, path : Paths, worker : Workers,
                 mode : Modes \cup OtherModes]
    /\ via = "execute" => args.feature \in Features
    /\ via = "process_parallel" =>
          /\ args.feature = "prime" /\ args.path = Dir(<<>>)
          /\ args.worker >= 1 /\ args.mode \in Modes
    /\ pc = CASE via = "main" -> "parse_arguments"
              [] via = "execute" -> "execute"
              [] OTHER -> "process_parallel"
    /\ chunks \in IF via = "process_parallel" THEN DirectChunks(args.worker) ELSE {<<>>}
    /\ pool = "none"
    /\ futures = <<>>
    /\ yielded = {}
    /\ results = <<>>
    /\ report = None
    /\ raised = None
    /\ exit_code = None
    /\ stdout = None
    /\ calls = NoCalls
    /\ merged = None
    /\ InitMerge
    /\ reg_features = ImportedJobs /\ reg_log = ImportLog /\ reg_got = None
    /\ InitCalls /\ InitBatch

\* main: parse_arguments. argparse leaves with status 2 (SystemExit, which the
\* handlers of main do not catch) when --feature or --mode is not one of its
\* choices.
ParseArguments ==
    /\ pc = "parse_arguments"
    /\ IF args.mode \in Modes /\ args.feature \in Features
       THEN pc' = "validate_arguments" /\ UNCHANGED exit_code
       ELSE pc' = "exit" /\ exit_code' = Some(2)
    /\ UNCHANGED <<via, args, chunks, pool, futures, yielded, results, report, raised,
                   stdout, calls, merged>>
    /\ UNCHANGED <<mergeVars, registryVars, callVars, batchVars>>

\* main: validate_arguments(args), then the registry lookup ('ingest' and
\* 'prime' are registered when the job modules are imported)
ValidateArguments ==
    /\ pc = "validate_arguments"
    /\ IF validate_arguments(args) # None
       THEN /\ pc' = "raised" /\ raised' = validate_arguments(args)
            /\ UNCHANGED <<exit_code, reg_got>>
       ELSE LET feature == FeatureRegistry_get_feature(reg_features, args.feature)
            IN /\ reg_got' = Some([name |-> args.feature, instance |-> feature])
               /\ IF feature = None
                  THEN \* "if not feature": sys.exit(1)
                       pc' = "exit" /\ exit_code' = Some(1) /\ UNCHANGED raised
                  ELSE pc' = "execute" /\ UNCHANGED <<raised, exit_code>>
    /\ UNCHANGED <<via, args, chunks, pool, futures, yielded, results, report,
                   stdout, calls, merged>>
    /\ UNCHANGED <<mergeVars, reg_features, reg_log, callVars, batchVars>>

\* execute: chunks = self.split_workload(path, num_workers)
SplitWorkload ==
    /\ pc = "execute"
    /\ LET r == split_workload(args.feature, args.path, args.worker)
       IN /\ calls' = [calls EXCEPT !.split_workload = @ + 1]
          /\ IF r.raised = None
             THEN pc' = "process_parallel" /\ chunks' = r.chunks /\ UNCHANGED raised
             ELSE pc' = "raised" /\ raised' = r.raised /\ UNCHANGED chunks
    /\ UNCHANGED <<via, args, pool, futures, yielded, results, report, exit_code, stdout, merged>>
    /\ UNCHANGED <<mergeVars, registryVars, callVars, batchVars>>

\* _process_parallel: the branch on mode and the executor's construction,
\* which raises ValueError for max_workers <= 0. Any other mode falls
\* through both branches and returns the empty results.
EnterPool ==
    /\ pc = "process_parallel"
    /\ args.mode \in Modes
    /\ IF max_workers(chunks, args.worker) <= 0
       THEN pc' = "raised" /\ raised' = Some("ValueError") /\ UNCHANGED <<pool, calls>>
       ELSE /\ pool' = "alive"
            /\ calls' = [calls EXCEPT !.executor = @ + 1]
            /\ pc' = IF chunks = <<>> THEN "call_as_completed" ELSE "submit"
            /\ UNCHANGED raised
    /\ UNCHANGED <<via, args, chunks, futures, yielded, results, report, exit_code, stdout, merged>>
    /\ UNCHANGED <<mergeVars, registryVars, callVars, batchVars>>

SkipPool ==
    /\ pc = "process_parallel"
    /\ args.mode \notin Modes
    /\ pc' = IF via = "process_parallel" THEN "results_returned" ELSE "merge_results"
    /\ UNCHANGED <<via, args, chunks, pool, futures, yielded, results, report, raised,
                   exit_code, stdout, calls, merged>>
    /\ UNCHANGED <<mergeVars, registryVars, callVars, batchVars>>

\* executor.submit(self.process_chunk, chunk) for the next chunk
Submit ==
    /\ pc = "submit"
    /\ Len(futures) < Len(chunks)
    /\ futures' = Append(futures, [chunk |-> chunks[Len(futures) + 1], state |-> "pending",
                                   result |-> None, exception |-> None,
                                   runs |-> 0, done |-> 0, early |-> FALSE, got |-> 0])
    /\ pc' = IF Len(futures) + 1 = Len(chunks) THEN "call_as_completed" ELSE "submit"
    /\ UNCHANGED <<via, args, chunks, pool, yielded, results, report, raised,
                   exit_code, stdout, calls, merged>>
    /\ UNCHANGED <<mergeVars, registryVars, callVars, batchVars>>

\* the for statement calls as_completed(future_to_chunk), which notes the
\* futures that are finished by now
AsCompleted ==
    /\ pc = "call_as_completed"
    /\ futures' = [j \in 1..Len(futures) |->
                      [futures[j] EXCEPT !.early = (futures[j].state = "finished")]]
    /\ calls' = [calls EXCEPT !.as_completed = @ + 1]
    /\ pc' = "as_completed"
    /\ UNCHANGED <<via, args, chunks, pool, yielded, results, report, raised,
                   exit_code, stdout, merged>>
    /\ UNCHANGED <<mergeVars, registryVars, callVars, batchVars>>

\* a worker of the pool takes a pending unit and calls process_chunk(chunk)
StartUnit(i) ==
    /\ pool = "alive"
    /\ worker_takes(futures, i, max_workers(chunks, args.worker))
    /\ futures' = [futures EXCEPT ![i].state = "running", ![i].runs = @ + 1]
    /\ UNCHANGED <<via, args, pc, chunks, pool, yielded, results, report, raised,
                   exit_code, stdout, calls, merged>>
    /\ UNCHANGED <<mergeVars, registryVars, callVars, batchVars>>

\* the unit returns what process_chunk returns
UnitReturns(i) ==
    /\ futures[i].state = "running"
    /\ futures' = [futures EXCEPT ![i].state = "finished",
                                  ![i].done = Cardinality(Finished(futures)) + 1,
                                  ![i].result = Some(process_chunk(args.feature, futures[i].chunk))]
    /\ UNCHANGED <<via, args, pc, chunks, pool, yielded, results, report, raised,
                   exit_code, stdout, calls, merged>>
    /\ UNCHANGED <<mergeVars, registryVars, callVars, batchVars>>

\* the unit raises an Exception (process_chunk is abstract in BaseJob, and in
\* process mode the transfer of the chunk or of the result may fail); the
\* executor stores it on the future
UnitRaises(i, msg) ==
    /\ futures[i].state = "running"
    /\ futures' = [futures EXCEPT ![i].state = "finished",
                                  ![i].done = Cardinality(Finished(futures)) + 1,
                                  ![i].exception = Some(msg)]
    /\ UNCHANGED <<via, args, pc, chunks, pool, yielded, results, report, raised,
                   exit_code, stdout, calls, merged>>
    /\ UNCHANGED <<mergeVars, registryVars, callVars, batchVars>>

\* as_completed yields its next future; the loop body
Collect(i) ==
    /\ pc = "as_completed"
    /\ as_completed_yields(futures, yielded, i)
    /\ futures' = [futures EXCEPT ![i].got = Cardinality(yielded) + 1]
    /\ LET r == collect_future(results, futures[i])
       IN /\ results' = r.results
          /\ yielded' = yielded \cup {i}
          /\ IF r.raised = None
             THEN UNCHANGED <<pc, raised, pool, calls>>
             ELSE \* the exception leaves the with block, whose exit waits for
                  \* the units and shuts the executor down
                  /\ pc' = "unwind" /\ raised' = r.raised /\ UNCHANGED <<pool, calls>>
    /\ UNCHANGED <<via, args, chunks, report, exit_code, stdout, merged>>
    /\ UNCHANGED <<mergeVars, registryVars, callVars, batchVars>>

\* the end of the with block: executor.shutdown(wait=True) returns once no
\* unit is pending or running
ExitPool ==
    /\ pc \in {"as_completed", "unwind"}
    /\ pc = "as_completed" => yielded = 1..Len(futures)
    /\ \A j \in 1..Len(futures) : futures[j].state = "finished"
    /\ pool' = executor_exit(pool)
    /\ calls' = [calls EXCEPT !.shutdown = @ + 1]
    /\ pc' = IF pc = "unwind" THEN "raised"
             ELSE IF via = "process_parallel" THEN "results_returned"
             ELSE "merge_results"
    /\ UNCHANGED <<via, args, chunks, futures, yielded, results, report, raised,
                   exit_code, stdout, merged>>
    /\ UNCHANGED <<mergeVars, registryVars, callVars, batchVars>>

\* execute: return self.merge_results(results)
MergeResults ==
    /\ pc = "merge_results"
    /\ merged' = Some(results)
    /\ calls' = [calls EXCEPT !.merge_results = @ + 1]
    /\ LET r == merge_results(args.feature, results)
       IN IF r.raised = None
          THEN pc' = "returned" /\ report' = r.report /\ UNCHANGED raised
          ELSE pc' = "raised" /\ raised' = r.raised /\ UNCHANGED report
    /\ UNCHANGED <<via, args, chunks, pool, futures, yielded, results, exit_code, stdout>>
    /\ UNCHANGED <<mergeVars, registryVars, callVars, batchVars>>

\* main: print(result) and the normal end of the process
PrintReport ==
    /\ via = "main"
    /\ pc = "returned"
    /\ stdout' = report
    /\ exit_code' = Some(0)
    /\ pc' = "exit"
    /\ UNCHANGED <<via, args, chunks, pool, futures, yielded, results, report, raised,
                   calls, merged>>
    /\ UNCHANGED <<mergeVars, registryVars, callVars, batchVars>>

\* main: except Exception: print the error, sys.exit(1)
HandleException ==
    /\ via = "main"
    /\ pc = "raised"
    /\ exit_code' = Some(1)
    /\ pc' = "exit"
    /\ UNCHANGED <<via, args, chunks, pool, futures, yielded, results, report, raised,
                   stdout, calls, merged>>
    /\ UNCHANGED <<mergeVars, registryVars, callVars, batchVars>>

Next ==
    \/ ParseArguments
    \/ ValidateArguments
    \/ SplitWorkload
    \/ EnterPool
    \/ SkipPool
    \/ Submit
    \/ AsCompleted
    \/ \E i \in 1..Len(futures) : StartUnit(i)
    \/ \E i \in 1..Len(futures) : UnitReturns(i)
    \/ \E i \in 1..Len(futures), msg \in ExcMessages : UnitRaises(i, msg)
    \/ \E i \in 1..Len(futures) : Collect(i)
    \/ ExitPool
    \/ MergeResults
    \/ PrintReport
    \/ HandleException

Spec == Init /\ [][Next]_vars

\* ------------------------------------------------------------------------
\* merge_results as a function of its argument
\* ------------------------------------------------------------------------
\* Chunks split_workload can return (a directory or configuration holding
\* just these units, one worker), and the JobResults that reach merge_results
\* for them: what process_chunk returns, or the failure the engine records.
SampleChunks(feature) ==
    IF feature = "ingest"
    THEN { <<FileA>>, <<FileB>>, <<FileC>>, <<FileUnreadable>> }
    ELSE { <<RangeTuple(Range(1, 20))>>, <<RangeTuple(Range(30, 20))>>,
           <<RangeTuple(Range(2, 3)), RangeTuple(Range(0, 1))>>,
           <<RangeTuple(RangeNotNumeric)>> }

SampleResults(feature) ==
    { process_chunk(feature, c) : c \in SampleChunks(feature) }
    \cup { JobResult(FALSE, None, Some(msg), None) : msg \in ExcMessages }

SeqsUpTo(S, n) == UNION { [1..k -> S] : k \in 0..n }

IdleArgs == [feature |-> "ingest", path |-> PathMissing, worker |-> 1, mode |-> "threading"]

InitMergeSpec ==
    /\ mjob \in Features
    /\ mresults \in SeqsUpTo(SampleResults(mjob), MaxResults)
    /\ mperm = mresults
    /\ mreports = None
    /\ via = "none" /\ args = IdleArgs /\ pc = "idle"
    /\ chunks = <<>> /\ pool = "none" /\ futures = <<>> /\ yielded = {} /\ results = <<>>
    /\ report = None /\ raised = None /\ exit_code = None /\ stdout = None
    /\ calls = NoCalls /\ merged = None
    /\ reg_features = <<>> /\ reg_log = <<>> /\ reg_got = None
    /\ InitCalls /\ InitBatch

\* another completion order of the same chunks: two neighbours change places
Permute(i) ==
    /\ mreports = None
    /\ i \in 1..(Len(mperm) - 1)
    /\ mperm' = [mperm EXCEPT ![i] = mperm[i + 1], ![i + 1] = mperm[i]]
    /\ UNCHANGED <<mjob, mresults, mreports>>
    /\ UNCHANGED <<engineVars, registryVars, callVars, batchVars>>

\* merge_results called with the results, with the other ordering of them,
\* and with their success JobResults alone
CallMerge ==
    /\ mjob \in Features
    /\ mreports = None
    /\ mreports' = Some([given     |-> merge_results(mjob, mresults),
                         permuted  |-> merge_results(mjob, mperm),
                         successes |-> merge_results(mjob,
                                          SelectSeq(mresults, LAMBDA r : r.success))])
    /\ UNCHANGED <<mjob, mresults, mperm>>
    /\ UNCHANGED <<engineVars, registryVars, callVars, batchVars>>

NextMerge ==
    \/ \E i \in 1..MaxResults : Permute(i)
    \/ CallMerge

SpecMerge == InitMergeSpec /\ [][NextMerge]_vars

\* ------------------------------------------------------------------------
\* execute under fair scheduling: the caller's thread goes on whenever it
\* can, the pool hands a pending unit to a free worker, and every
\* process_chunk call that was started ends (it returns or raises)
\* ------------------------------------------------------------------------
CallerStep ==
    \/ ParseArguments \/ ValidateArguments \/ SplitWorkload \/ EnterPool \/ SkipPool
    \/ Submit \/ AsCompleted \/ (\E i \in 1..Len(futures) : Collect(i))
    \/ ExitPool \/ MergeResults \/ PrintReport \/ HandleException

\* the states in which the caller's thread can take a step: it is somewhere
\* before the end of its code, and not blocked in as_completed (no future to
\* yield yet) or in the executor's shutdown (a unit not finished yet)
CallerCanStep ==
    \/ pc \in {"parse_arguments", "validate_arguments", "execute", "process_parallel",
               "submit", "call_as_completed", "merge_results"}
    \/ pc = "as_completed" /\ \E i \in 1..Len(futures) : as_completed_yields(futures, yielded, i)
    \/ /\ pc \in {"as_completed", "unwind"}
       /\ pc = "as_completed" => yielded = 1..Len(futures)
       /\ \A j \in 1..Len(futures) : futures[j].state = "finished"
    \/ via = "main" /\ pc \in {"returned", "raised"}

UnitEnds ==
    \E i \in 1..Len(futures) : UnitReturns(i) \/ (\E msg \in ExcMessages : UnitRaises(i, msg))

\* Weak fairness of the caller's steps, of the pool's handing out of pending
\* units, and of the ending of running units. For the caller and for the
\* ending of units the condition is written with the enabling condition
\* spelled out (what WF_vars abbreviates): either the step is disabled
\* again and again, or it is taken again and again.
Fairness ==
    /\ ([]<>(~CallerCanStep) \/ []<><<CallerStep>>_vars)
    /\ WF_vars(\E i \in 1..Len(futures) : StartUnit(i))
    /\ ([]<>(Running(futures) = {}) \/ []<><<UnitEnds>>_vars)

SpecFair == Init /\ [][Next]_vars /\ Fairness

\* ------------------------------------------------------------------------
\* The registry on its own: any sequence of register and get_feature calls
\* on a new FeatureRegistry
\* ------------------------------------------------------------------------
RegistryNames == Features \cup OtherFeatures

InitRegistrySpec ==
    /\ reg_features = <<>> /\ reg_log = <<>> /\ reg_got = None
    /\ InitMerge
    /\ via = "none" /\ args = IdleArgs /\ pc = "idle"
    /\ chunks = <<>> /\ pool = "none" /\ futures = <<>> /\ yielded = {} /\ results = <<>>
    /\ report = None /\ raised = None /\ exit_code = None /\ stdout = None
    /\ calls = NoCalls /\ merged = None
    /\ InitCalls /\ InitBatch

\* register(name, feature_class)
Register(name, feature_class) ==
    /\ Len(reg_log) < MaxRegister
    /\ reg_features' = FeatureRegistry_register(reg_features, name, feature_class)
    /\ reg_log' = Append(reg_log, [name |-> name, class |-> feature_class])
    /\ reg_got' = None
    /\ UNCHANGED <<engineVars, mergeVars, callVars, batchVars>>

\* get_feature(name)
GetFeature(name) ==
    /\ reg_got' = Some([name |-> name,
                         instance |-> FeatureRegistry_get_feature(reg_features, name)])
    /\ UNCHANGED <<reg_features, reg_log>>
    /\ UNCHANGED <<engineVars, mergeVars, callVars, batchVars>>

NextRegistry ==
    \/ \E name \in RegistryNames, feature_class \in JobClasses : Register(name, feature_class)
    \/ \E name \in RegistryNames : GetFeature(name)

SpecRegistry == InitRegistrySpec /\ [][NextRegistry]_vars

\* ------------------------------------------------------------------------
\* Direct calls of a job's methods: split_workload alone, the three steps of
\* execute with every unit returning and collected in submission order, and
\* merge_results alone on JobResults a caller built
\* ------------------------------------------------------------------------
\* a file whose read raises after its first line (a line that does not decode)
FilePartly == LogFile(<<LinePost, LineGet>>, Some(1))

CallFiles == {FileA, FileB, FileC, FileUnreadable, FilePartly}
CallRanges == {Range(1, 20), Range(1, 80), Range(30, 20), Range(0, 1), Range(14, 16),
               RangeNotNumeric}

CallPaths(feature) ==
    IF feature = "ingest"
    THEN { Dir(fs) : fs \in SeqsUpTo(CallFiles, MaxUnits) }
    ELSE { ConfigFile("ok", Some(rs)) : rs \in SeqsUpTo(CallRanges, MaxUnits) }
         \cup { ConfigFile("ok", None) }

\* JobResults given to merge_results by a caller: what process_chunk returned
\* for a chunk, a success whose payload is the empty dict or None, a failure
CallResults(feature) ==
    { process_chunk(feature, IF feature = "ingest" THEN <<FileA>>
                             ELSE <<RangeTuple(Range(14, 16))>>),
      JobResult(TRUE, Some(EmptyDict), None, None),
      JobResult(TRUE, None, None, None),
      JobResult(FALSE, None, Some("boom"), None) }

CallOf(op, feature, path, worker, rs) ==
    [op |-> op, feature |-> feature, path |-> path, worker |-> worker, results |-> rs]

CallInputs ==
    { CallOf(op, feature, path, worker, <<>>) :
        op \in {"split_workload", "execute"}, feature \in Features,
        path \in CallPaths("ingest") \cup CallPaths("prime"), worker \in 1..MaxWorkers }
    \cup { CallOf("merge_results", "ingest", PathMissing, 1, rs) :
             rs \in SeqsUpTo(CallResults("ingest"), MaxResults) }
    \cup { CallOf("merge_results", "prime", PathMissing, 1, rs) :
             rs \in SeqsUpTo(CallResults("prime"), MaxResults) }

EngineIdle ==
    /\ via = "none" /\ args = IdleArgs /\ pc = "idle"
    /\ chunks = <<>> /\ pool = "none" /\ futures = <<>> /\ yielded = {} /\ results = <<>>
    /\ report = None /\ raised = None /\ exit_code = None /\ stdout = None
    /\ calls = NoCalls /\ merged = None

InitCallsSpec ==
    /\ \E c \in CallInputs :
          /\ (c.op # "merge_results") => (c.path \in CallPaths(c.feature))
          /\ call = Some(c)
    /\ ret = None
    /\ EngineIdle /\ InitMerge /\ InitBatch
    /\ reg_features = <<>> /\ reg_log = <<>> /\ reg_got = None

\* job.split_workload(path, num_workers)
CallSplitWorkload ==
    /\ call # None /\ call[1].op = "split_workload" /\ ret = None
    /\ ret' = Some(split_workload(call[1].feature, call[1].path, call[1].worker))
    /\ UNCHANGED <<call, engineVars, mergeVars, registryVars, batchVars>>

\* execute's three steps when every unit returns what process_chunk returns
\* and the units are collected in submission order
ExecuteInOrder ==
    /\ call # None /\ call[1].op = "execute" /\ ret = None
    /\ LET s == split_workload(call[1].feature, call[1].path, call[1].worker)
           rs == [i \in 1..Len(s.chunks) |-> process_chunk(call[1].feature, s.chunks[i])]
           m == merge_results(call[1].feature, rs)
       IN ret' = Some([chunks |-> s.chunks, results |-> rs,
                       report |-> m.report, raised |-> m.raised])
    /\ UNCHANGED <<call, engineVars, mergeVars, registryVars, batchVars>>

\* job.merge_results(results)
CallMergeResults ==
    /\ call # None /\ call[1].op = "merge_results" /\ ret = None
    /\ LET m == merge_results(call[1].feature, call[1].results)
       IN ret' = Some([report |-> m.report, raised |-> m.raised,
                       warnings |-> merge_warnings(call[1].feature, call[1].results)])
    /\ UNCHANGED <<call, engineVars, mergeVars, registryVars, batchVars>>

NextCalls ==
    \/ CallSplitWorkload
    \/ ExecuteInOrder
    \/ CallMergeResults

SpecCalls == InitCallsSpec /\ [][NextCalls]_vars

\* ------------------------------------------------------------------------
\* workers/thread_worker.py and workers/process_worker.py: process_batch.
\* A task is a callable that returns its position in the batch ("returns"),
\* a callable that raises ("raises"), or a plain value, its position, which
\* work returns as it is ("value").
\* ------------------------------------------------------------------------
WorkerClasses == {"ThreadWorker", "ProcessWorker"}
TaskKinds == {"returns", "raises", "value"}

\* the number of workers of the executor: max_workers, or for None the
\* default of the machine (cpu_count() and the like), here the most the
\* model lets run at once
pool_size(given) == IF given = None THEN MaxWorkers ELSE given[1]

\* the loop body of process_batch: results.append(future.result()), or
\* results.append(None) when the future holds an exception
batch_collect(rs, future) ==
    IF future.exception = None THEN Append(rs, future.result)
    ELSE Append(rs, None)

InitBatchSpec ==
    /\ bworker \in WorkerClasses
    /\ btasks \in SeqsUpTo(TaskKinds, MaxTasks)
    /\ bmax \in {None} \cup {Some(n) : n \in 0..MaxWorkers}
    /\ bpc = "process_batch"
    /\ bfutures = <<>> /\ byielded = {} /\ bresults = <<>>
    /\ EngineIdle /\ InitMerge /\ InitCalls
    /\ reg_features = <<>> /\ reg_log = <<>> /\ reg_got = None

\* with ...PoolExecutor(max_workers=max_workers) as executor: the
\* constructor raises ValueError for max_workers <= 0
BatchEnter ==
    /\ bpc = "process_batch"
    /\ bpc' = IF pool_size(bmax) <= 0 THEN "raised"
              ELSE IF btasks = <<>> THEN "call_as_completed" ELSE "submit"
    /\ UNCHANGED <<bworker, btasks, bmax, bfutures, byielded, bresults>>
    /\ UNCHANGED <<engineVars, mergeVars, registryVars, callVars>>

\* executor.submit(self.work, task) for the next task
BatchSubmit ==
    /\ bpc = "submit"
    /\ Len(bfutures) < Len(btasks)
    /\ bfutures' = Append(bfutures, [task |-> Len(bfutures) + 1, state |-> "pending",
                                     result |-> None, exception |-> None,
                                     done |-> 0, early |-> FALSE, got |-> 0])
    /\ bpc' = IF Len(bfutures) + 1 = Len(btasks) THEN "call_as_completed" ELSE "submit"
    /\ UNCHANGED <<bworker, btasks, bmax, byielded, bresults>>
    /\ UNCHANGED <<engineVars, mergeVars, registryVars, callVars>>

\* the for statement calls as_completed(future_to_task)
BatchAsCompleted ==
    /\ bpc = "call_as_completed"
    /\ bfutures' = [j \in 1..Len(bfutures) |->
                       [bfutures[j] EXCEPT !.early = (bfutures[j].state = "finished")]]
    /\ bpc' = "as_completed"
    /\ UNCHANGED <<bworker, btasks, bmax, byielded, bresults>>
    /\ UNCHANGED <<engineVars, mergeVars, registryVars, callVars>>

\* a worker of the pool takes a pending task and calls work(task)
BatchStart(i) ==
    /\ bpc \in {"submit", "call_as_completed", "as_completed"}
    /\ i \in 1..Len(bfutures)
    /\ worker_takes(bfutures, i, pool_size(bmax))
    /\ bfutures' = [bfutures EXCEPT ![i].state = "running"]
    /\ UNCHANGED <<bworker, btasks, bmax, bpc, byielded, bresults>>
    /\ UNCHANGED <<engineVars, mergeVars, registryVars, callVars>>

\* work(task) returns task() or the task itself
WorkReturns(i) ==
    /\ i \in 1..Len(bfutures)
    /\ bfutures[i].state = "running"
    /\ btasks[i] \in {"returns", "value"}
    /\ bfutures' = [bfutures EXCEPT ![i].state = "finished",
                                    ![i].done = Cardinality(Finished(bfutures)) + 1,
                                    ![i].result = Some(i)]
    /\ UNCHANGED <<bworker, btasks, bmax, bpc, byielded, bresults>>
    /\ UNCHANGED <<engineVars, mergeVars, registryVars, callVars>>

\* work(task) logs the exception of task() and raises it again
WorkRaises(i) ==
    /\ i \in 1..Len(bfutures)
    /\ bfutures[i].state = "running"
    /\ btasks[i] = "raises"
    /\ bfutures' = [bfutures EXCEPT ![i].state = "finished",
                                    ![i].done = Cardinality(Finished(bfutures)) + 1,
                                    ![i].exception = Some("Exception")]
    /\ UNCHANGED <<bworker, btasks, bmax, bpc, byielded, bresults>>
    /\ UNCHANGED <<engineVars, mergeVars, registryVars, callVars>>

\* as_completed yields its next future; the loop body
BatchCollect(i) ==
    /\ bpc = "as_completed"
    /\ i \in 1..Len(bfutures)
    /\ as_completed_yields(bfutures, byielded, i)
    /\ bfutures' = [bfutures EXCEPT ![i].got = Cardinality(byielded) + 1]
    /\ bresults' = batch_collect(bresults, bfutures[i])
    /\ byielded' = byielded \cup {i}
    /\ UNCHANGED <<bworker, btasks, bmax, bpc>>
    /\ UNCHANGED <<engineVars, mergeVars, registryVars, callVars>>

\* the end of the with block, and return results
BatchReturn ==
    /\ bpc = "as_completed"
    /\ byielded = 1..Len(bfutures)
    /\ bpc' = "returned"
    /\ UNCHANGED <<bworker, btasks, bmax, bfutures, byielded, bresults>>
    /\ UNCHANGED <<engineVars, mergeVars, registryVars, callVars>>

NextBatch ==
    \/ BatchEnter
    \/ BatchSubmit
    \/ BatchAsCompleted
    \/ \E i \in 1..MaxTasks : BatchStart(i)
    \/ \E i \in 1..MaxTasks : WorkReturns(i)
    \/ \E i \in 1..MaxTasks : WorkRaises(i)
    \/ \E i \in 1..MaxTasks : BatchCollect(i)
    \/ BatchReturn

SpecBatch == InitBatchSpec /\ [][NextBatch]_vars

\* ------------------------------------------------------------------------
\* Properties
\* ------------------------------------------------------------------------
RECURSIVE SumSeq(_)
SumSeq(s) == IF s = <<>> THEN 0 ELSE s[1] + SumSeq(Tail(s))

Failures(rs) == {i \in 1..Len(rs) : ~rs[i].success}
RaisedUnits == {j \in 1..Len(futures) : futures[j].exception # None}
ValidCall == args.worker >= 1 /\ args.mode \in Modes

\* C1 (conservation): in a call with workerCount >= 1 in either mode whose
\* split_workload returned k chunks, the sequence execute hands to
\* merge_results holds exactly k JobResults, one per submitted unit, and at
\* least as many failure JobResults as units raised: a unit that raised is
\* never left out.
C1_Conservation ==
    (merged # None /\ ValidCall) =>
        /\ Len(merged[1]) = Len(chunks)
        /\ Len(futures) = Len(chunks)
        /\ Cardinality(Failures(merged[1])) >= Cardinality(RaisedUnits)

\* C1 witness: merge_results was called after two or more chunks of which
\* one raised and one returned
C1_Witness ==
    /\ merged # None /\ ValidCall
    /\ Len(chunks) >= 2
    /\ \E j \in 1..Len(futures) : futures[j].exception # None
    /\ \E j \in 1..Len(futures) : futures[j].exception = None

\* C2: every failure JobResult handed to merge_results carries a non-empty
\* error message, and the results of all chunks reach merge_results.
\* (Violated: error = str(e) is '' for an exception raised without a message.)
C2_FailureHasMessage ==
    (merged # None /\ ValidCall) =>
        /\ Len(merged[1]) = Len(chunks)
        /\ \A i \in Failures(merged[1]) :
              merged[1][i].error # None /\ merged[1][i].error[1] # ""

\* C3: merge_results returns the same report for any two orderings of the
\* same JobResults. (Violated by LogIngestJob: most_common keeps the
\* insertion order of keys whose counts tie.)
C3_MergePermutationInvariant ==
    mreports # None => mreports[1].given = mreports[1].permuted

\* C4: a call with workerCount < 1 or an empty path never reaches
\* split_workload, creates no executor, processes no chunk and calls no
\* merge_results. (Violated: execute validates nothing.)
C4_InvalidArgumentBeforeSplit ==
    ((args.worker < 1 \/ args.path.empty) /\ args.mode \in Modes) =>
        /\ calls.split_workload = 0
        /\ calls.executor = 0
        /\ calls.merge_results = 0
        /\ futures = <<>>
        /\ report = None

\* C5: a call whose mode is neither 'threading' nor 'process' processes no
\* chunk, calls no merge_results and returns no report. (Violated:
\* _process_parallel returns [] and execute merges it.)
C5_UnknownModeFails ==
    (args.mode \notin Modes /\ args.worker >= 1 /\ ~args.path.empty) =>
        /\ futures = <<>>
        /\ calls.merge_results = 0
        /\ report = None

\* C6: in a call with workerCount >= 1 in either mode whose split_workload
\* returned no chunk, no unit is ever submitted, nothing is raised,
\* merge_results is called at most once, and once execute has returned it
\* was called exactly once, with the empty sequence, and execute returned
\* the report of that call.
C6_EmptyChunksMergeOnce ==
    (calls.split_workload = 1 /\ chunks = <<>> /\ ValidCall) =>
        /\ futures = <<>>
        /\ raised = None /\ pc # "raised"
        /\ calls.merge_results <= 1
        /\ pc \in {"returned", "exit"} =>
              /\ calls.merge_results = 1
              /\ merged = Some(<<>>)
              /\ report # None
              /\ report = merge_results(args.feature, <<>>).report

\* C6 witness: execute has returned after split_workload returned no chunk
C6_Witness ==
    /\ calls.split_workload = 1 /\ chunks = <<>> /\ ValidCall
    /\ pc = "returned" /\ merged = Some(<<>>) /\ report # None

\* C7: when the configuration file of PrimeCalculationJob is missing or
\* malformed, no chunk is processed, merge_results is not called and no
\* report is returned. (Violated: split_workload catches the error and
\* returns [], which execute merges.)
C7_SplitFailureFatal ==
    (args.feature = "prime" /\ args.path.json.kind \in {"missing", "malformed"} /\ ValidCall) =>
        /\ futures = <<>>
        /\ calls.merge_results = 0
        /\ report = None

\* while execute waits in the as_completed loop: a unit can start, a unit is
\* running, a finished future is still to be yielded, or the loop can end
LoopCanAdvance ==
    \/ \E j \in 1..Len(futures) :
          /\ futures[j].state = "pending"
          /\ Cardinality({k \in 1..Len(futures) : futures[k].state = "running"})
                < max_workers(chunks, args.worker)
    \/ \E j \in 1..Len(futures) : futures[j].state = "running"
    \/ \E j \in 1..Len(futures) : as_completed_yields(futures, yielded, j)
    \/ yielded = 1..Len(futures)

\* C8: once units were submitted, whatever they do, nothing is raised out of
\* execute, the wait for the units is never stuck, execute returns a report,
\* and the command prints that report and exits with status 0.
C8_ChunkFailuresNotFatal ==
    futures # <<>> =>
        /\ raised = None /\ pc # "raised"
        /\ pc \in {"submit", "call_as_completed", "as_completed", "merge_results",
                  "results_returned", "returned", "exit"}
        /\ pc = "as_completed" => LoopCanAdvance
        /\ pc \in {"returned", "exit"} => report # None
        /\ pc = "exit" => exit_code = Some(0) /\ stdout = report

\* C8 witness: the command has exited with status 0 after every one of two or
\* more units raised
C8_Witness ==
    /\ pc = "exit" /\ exit_code = Some(0)
    /\ Len(futures) >= 2
    /\ \A j \in 1..Len(futures) : futures[j].exception # None

\* the count the report prints for key in its counter lines
LineCount(rep, key) ==
    SumSeq([i \in 1..Len(rep) |-> IF rep[i].label = "  item" /\ rep[i].key = key
                                   THEN rep[i].num ELSE 0])
CounterKeys == {"GET", "POST", "ua1", "ua2"} \cup {StatusClassNames[i] : i \in 1..Len(StatusClassNames)}

\* C9: merge_results raises for no mix of success and failure JobResults,
\* its report is the report of the success JobResults alone, and the totals
\* it prints are the sums over the success JobResults (total requests and
\* every counter for ingest; primes found and numbers checked for prime).
C9_MergeToleratesFailures ==
    mreports # None =>
        LET succ == SelectSeq(mresults, LAMBDA r : r.success)
            given == mreports[1].given
        IN /\ given.raised = None
           /\ given = mreports[1].successes
           /\ IF mjob = "ingest"
              THEN /\ given.report[1][1].num
                        = SumSeq([i \in 1..Len(succ) |-> succ[i].data[1].total_requests])
                   /\ \A k \in CounterKeys :
                        LineCount(given.report[1], k)
                          = SumSeq([i \in 1..Len(succ) |->
                                      CounterGet(succ[i].data[1].by_method, k)
                                      + CounterGet(succ[i].data[1].by_status_class, k)
                                      + CounterGet(succ[i].data[1].user_agents, k)])
              ELSE /\ given.report[1][3].num
                        = SumSeq([i \in 1..Len(succ) |-> Len(succ[i].data[1].primes)])
                   /\ given.report[1][4].num
                        = SumSeq([i \in 1..Len(succ) |->
                                    succ[i].data[1].statistics.total_numbers_checked])

\* C9 witness: merge_results was called with a failure between two successes
C9_Witness ==
    /\ mreports # None
    /\ Len(mresults) = 3
    /\ mresults[1].success /\ ~mresults[2].success /\ mresults[3].success
    /\ mresults[1].data[1] # mresults[3].data[1]

\* C10: for the same success JobResults, the report of a sequence that holds
\* a failure JobResult differs from the report of the sequence without the
\* failures. (Violated: a failure is only logged; no line of either report
\* counts failures.)
C10_FailuresVisibleInReport ==
    (mreports # None /\ Failures(mresults) # {}) =>
        mreports[1].given # mreports[1].successes

\* an error met inside process_chunk(chunk): a file of the chunk cannot be
\* opened or read (ingest), a bound of a range is no number (prime)
InternalFailure(feature, chunk) ==
    IF feature = "ingest"
    THEN \E k \in 1..Len(chunk) : chunk[k].error_after # None
    ELSE \E k \in 1..Len(chunk) : ~chunk[k].numeric

\* C11: when process_chunk meets an internal failure while processing its
\* chunk, the JobResult it returns has success = False and carries a
\* non-empty message. (Violated by LogIngestJob: the handler of the inner try
\* logs the file's error and goes on, and the chunk's JobResult has
\* success = True.)
C11_ProcessChunkReportsFailure ==
    \A i \in 1..Len(futures) :
        (futures[i].result # None /\ InternalFailure(args.feature, futures[i].chunk)) =>
            /\ ~futures[i].result[1].success
            /\ futures[i].result[1].error # None
            /\ futures[i].result[1].error[1] # ""

\* C12: a call creates at most one executor and shuts it down at most once;
\* the executor is alive exactly between its creation and its shutdown; once
\* _process_parallel is left (towards merge_results, by returning or by
\* raising) every executor created has been shut down; and the shutdown
\* happens only when every submitted unit has finished.
C12_PoolReleasedOnce ==
    /\ calls.executor <= 1
    /\ calls.shutdown <= calls.executor
    /\ (pool = "alive") <=> (calls.executor = 1 /\ calls.shutdown = 0)
    /\ pc \in {"merge_results", "results_returned", "returned", "raised", "exit"} =>
          /\ pool # "alive"
          /\ calls.shutdown = calls.executor
    /\ pool = "shutdown" =>
          /\ Len(futures) = Len(chunks)
          /\ \A j \in 1..Len(futures) : futures[j].state = "finished"

\* C12 witness: execute has returned with its executor shut down after a
\* unit raised and another returned
C12_Witness ==
    /\ pc = "returned" /\ pool = "shutdown" /\ calls.shutdown = 1
    /\ \E j \in 1..Len(futures) : futures[j].exception # None
    /\ \E j \in 1..Len(futures) : futures[j].exception = None

\* C13: merge_results is called only when every submitted unit has finished
\* and was collected, and the results are gathered in the order in which the
\* units finished. (Violated in the order: as_completed yields the futures
\* that had finished before it was called in the iteration order of a set.)
C13_MergeAfterAllInCompletionOrder ==
    /\ calls.merge_results > 0 =>
          \A j \in 1..Len(futures) : futures[j].state = "finished" /\ j \in yielded
    /\ Len(results) = Cardinality(yielded)
    /\ \A i \in yielded : \A j \in yielded :
          futures[i].got < futures[j].got => futures[i].done < futures[j].done

\* the indices a submitted unit can have
UnitIds == 1..(MaxWorkers + 1)

\* C14: under fair scheduling, with process_chunk calls that end, every
\* submitted unit eventually finishes (it returned, or raised and the
\* exception is kept on its future), and every call that created its executor
\* eventually shuts it down with all units collected and goes on to return:
\* execute its report, _process_parallel its results.
C14_UnitsRunAndExecuteReturns ==
    /\ \A i \in UnitIds :
          (Len(futures) >= i) ~> (Len(futures) >= i /\ futures[i].state = "finished")
    /\ (pool = "alive") ~>
          /\ pool = "shutdown"
          /\ yielded = 1..Len(futures)
          /\ Len(results) = Len(chunks)
          /\ \/ pc \in {"returned", "exit"} /\ report # None /\ calls.merge_results = 1
             \/ pc = "results_returned"

\* C14 witness: execute has returned after two or more units ran
C14_Witness ==
    /\ pc = "returned" /\ report # None
    /\ Len(futures) >= 2
    /\ \A j \in 1..Len(futures) : futures[j].state = "finished" /\ futures[j].runs = 1

\* C15: at every moment the number of units running at once is at most
\* workerCount, in both modes, also with more chunks than workers.
C15_AtMostWorkerCountRunning ==
    futures # <<>> =>
        /\ args.mode \in Modes
        /\ Cardinality(Running(futures)) <= args.worker

\* C15 witness: workerCount units run while another submitted unit waits
C15_Witness ==
    /\ Len(futures) > args.worker
    /\ args.worker >= 1
    /\ Cardinality(Running(futures)) = args.worker
    /\ \E j \in 1..Len(futures) : futures[j].state = "pending"

\* C16: split_workload has completed before any unit is submitted, every
\* chunk was submitted before merge_results is called, and merge_results is
\* called only after the collecting loop was entered on an executor of the
\* call. (Violated for a mode that is neither 'threading' nor 'process':
\* execute goes from split_workload straight to merge_results.)
C16_PhasesInOrder ==
    via # "process_parallel" =>
        /\ futures # <<>> => calls.split_workload = 1
        /\ calls.executor > 0 => calls.split_workload = 1
        /\ calls.merge_results > 0 =>
              /\ calls.split_workload = 1
              /\ Len(futures) = Len(chunks)
              /\ calls.executor = 1 /\ calls.as_completed = 1 /\ calls.shutdown = 1
        /\ report # None => calls.merge_results = 1

\* C17: every JobResult handed to merge_results has data exactly when
\* success is true and an error exactly when success is false.
C17_EnvelopeInvariant ==
    merged # None =>
        \A i \in 1..Len(merged[1]) :
            /\ (merged[1][i].data # None) <=> merged[1][i].success
            /\ (merged[1][i].error # None) <=> ~merged[1][i].success

\* C17 witness: merge_results was called with a failure JobResult that
\* process_chunk returned and a failure JobResult that _process_parallel
\* built for a unit that raised
C17_Witness ==
    /\ merged # None
    /\ Len(merged[1]) >= 2
    /\ \E j \in 1..Len(futures) : futures[j].exception # None
    /\ \E j \in 1..Len(futures) : futures[j].result # None /\ ~futures[j].result[1].success

\* C18: once execute has returned, every chunk split_workload returned was
\* submitted once, unchanged, and process_chunk was called exactly once for
\* it. (Violated for a mode that is neither 'threading' nor 'process': no
\* chunk is passed to process_chunk and execute returns a report.)
C18_EachChunkProcessedOnce ==
    (calls.split_workload = 1 /\ pc \in {"returned", "exit"} /\ report # None) =>
        /\ Len(futures) = Len(chunks)
        /\ \A i \in 1..Len(chunks) :
              /\ futures[i].chunk = chunks[i]
              /\ futures[i].runs = 1

\* the class of the last register call for name in the log, "" if none
RECURSIVE LastRegistered(_, _)
LastRegistered(log, name) ==
    IF log = <<>> THEN ""
    ELSE IF log[Len(log)].name = name THEN log[Len(log)].class
    ELSE LastRegistered(SubSeq(log, 1, Len(log) - 1), name)

\* what get_feature(name) has to return after the register calls of the log
Expected(log, name) ==
    IF LastRegistered(log, name) = "" THEN None
    ELSE Some([instance_of |-> LastRegistered(log, name)])

\* C19: after any sequence of register calls, a name is in the registry
\* exactly if it was registered at some time (no name is removed), and
\* get_feature(name) returns an instance of the class registered last under
\* name, or None when name was never registered.
C19_RegistryLatestWins ==
    /\ \A n \in RegistryNames :
          /\ FeatureRegistry_has_feature(reg_features, n)
                <=> (\E i \in 1..Len(reg_log) : reg_log[i].name = n)
          /\ FeatureRegistry_get_feature(reg_features, n) = Expected(reg_log, n)
    /\ reg_got # None => reg_got[1].instance = Expected(reg_log, reg_got[1].name)
    /\ \A i \in 1..Len(reg_features) : \A j \in 1..Len(reg_features) :
          reg_features[i].name = reg_features[j].name => i = j

\* C19 witness: get_feature was called for a name registered twice, with
\* two classes, among other names
C19_Witness ==
    /\ reg_got # None
    /\ reg_got[1].instance # None
    /\ \E i \in 1..Len(reg_log) : \E j \in 1..Len(reg_log) :
          /\ i < j
          /\ reg_log[i].name = reg_got[1].name /\ reg_log[j].name = reg_got[1].name
          /\ reg_log[i].class # reg_log[j].class

\* C20: the command ends with status 0 exactly when execute returned a
\* report, and then it printed that report; it ends with a non-zero status
\* and prints no report when the path is missing or of the wrong kind or
\* the worker count is below 1 (and then execute was not called), when the
\* feature or mode is not one the parser knows, and when execute raised.
C20_ExitCode ==
    (via = "main" /\ pc = "exit") =>
        /\ exit_code # None
        /\ (exit_code = Some(0)) <=> (report # None /\ raised = None)
        /\ exit_code = Some(0) => stdout = report
        /\ exit_code # Some(0) => stdout = None
        /\ (args.feature \notin Features \/ args.mode \notin Modes) =>
              exit_code # Some(0) /\ calls.split_workload = 0
        /\ (\/ ~args.path.exists
            \/ args.feature = "ingest" /\ ~args.path.is_dir
            \/ args.feature = "prime" /\ ~args.path.is_file
            \/ args.worker < 1) =>
              exit_code # Some(0) /\ calls.split_workload = 0
        /\ raised # None => exit_code = Some(1)

\* C20 witness: the command ended with status 1 for a worker count below 1
\* on a path that exists and is of the right kind
C20_Witness ==
    /\ via = "main" /\ pc = "exit" /\ exit_code = Some(1)
    /\ args.worker < 1 /\ args.path.exists
    /\ args.feature = "ingest" /\ args.path.is_dir
    /\ stdout = None

\* the number a report prints on the line with the given label
ReportNum(rep, label) ==
    LET i == CHOOSE j \in 1..Len(rep) : rep[j].label = label IN rep[i].num

\* C28: the 'Ranges Processed' figure of the merged prime report is the
\* number of ranges in the chunks whose JobResult is a success.
C28_RangesProcessedCounted ==
    (mjob = "prime" /\ mreports # None /\ mreports[1].given.report # None) =>
        ReportNum(mreports[1].given.report[1], "Ranges Processed")
          = SumSeq([i \in 1..Len(mresults) |->
                      IF mresults[i].success
                      THEN mresults[i].data[1].ranges_processed ELSE 0])

\* C29: for every list of ranges, with start < 2 or end < start included,
\* total_numbers_checked is non-negative and the primes found do not exceed
\* it, in every chunk's statistics and in the merged report.
C29_CheckedBoundsPrimes ==
    mjob = "prime" =>
        /\ \A i \in 1..Len(mresults) : mresults[i].success =>
              LET st == mresults[i].data[1].statistics
              IN st.total_numbers_checked >= 0
                 /\ st.primes_found <= st.total_numbers_checked
        /\ (mreports # None /\ mreports[1].given.report # None) =>
              LET rep == mreports[1].given.report[1]
              IN ReportNum(rep, "Total Numbers Checked") >= 0
                 /\ ReportNum(rep, "Total Primes Found")
                      <= ReportNum(rep, "Total Numbers Checked")

\* the outcome of unit j as a JobResult, and the outcomes in submission order
Outcome(j) == collect_future(<<>>, futures[j]).results[1]
SubmissionOrder == [j \in 1..Len(futures) |-> Outcome(j)]
SeqToBag(s) ==
    [x \in {s[i] : i \in 1..Len(s)} |-> Cardinality({i \in 1..Len(s) : s[i] = x})]

\* C24: what execute hands to merge_results and the report it returns are
\* fixed by the job, the chunks and the per-chunk outcomes alone: in either
\* mode and in every completion order merge_results receives the same
\* multiset of JobResults and execute returns the same report (the one of
\* the outcomes taken in submission order).
C24_ModesInterchangeable ==
    (merged # None /\ report # None /\ ValidCall) =>
        /\ SeqToBag(merged[1]) = SeqToBag(SubmissionOrder)
        /\ report = merge_results(args.feature, SubmissionOrder).report

\* C25: a fault raised inside merge_results, and a number of JobResults
\* handed to merge_results that differs from the number of chunks split,
\* both make execute fail at its caller: no report is returned, and the
\* command ends with a non-zero status.
C25_MergeFailureFatal ==
    /\ (merged # None /\ raised # None) =>
          report = None /\ (pc = "exit" => exit_code = Some(1))
    /\ (merged # None /\ Len(merged[1]) # Len(chunks)) =>
          /\ report = None
          /\ pc \in {"raised", "exit"}
          /\ pc = "exit" => exit_code # Some(0)

\* the input units of a direct call: the log files of the directory, or the
\* (start, end) pairs of the configuration's ranges
CallUnits(c) ==
    IF c.feature = "ingest" THEN c.path.log_files
    ELSE IF c.path.json.config.ranges = None THEN <<>>
    ELSE LET ranges == c.path.json.config.ranges[1]
         IN [i \in 1..Len(ranges) |-> RangeTuple(ranges[i])]

\* C23: for m input units and workerCount n >= 1 split_workload returns
\* min(m, n) chunks, none of them empty; chunk b holds, in order, the units
\* whose 0-based index i has i mod n = b - 1; the chunks hold m units in all,
\* so every unit is in exactly one chunk; m = 0 gives no chunk.
C23_RoundRobinPartition ==
    (call # None /\ call[1].op = "split_workload" /\ ret # None) =>
        LET units == CallUnits(call[1])
            n == call[1].worker
            m == Len(units)
            cs == ret[1].chunks
        IN /\ ret[1].raised = None
           /\ Len(cs) = Min2(m, n)
           /\ \A b \in 1..Len(cs) :
                 /\ cs[b] # <<>>
                 /\ \A k \in 1..Len(cs[b]) :
                       (k - 1) * n + b <= m /\ cs[b][k] = units[(k - 1) * n + b]
           /\ SumSeq([b \in 1..Len(cs) |-> Len(cs[b])]) = m
           /\ m = 0 => cs = <<>>

\* C23 witness: three log files were split for two workers into a chunk of
\* two files and a chunk of one
C23_Witness ==
    /\ call # None /\ call[1].op = "split_workload" /\ call[1].feature = "ingest"
    /\ Len(call[1].path.log_files) = 3 /\ call[1].worker = 2
    /\ ret # None /\ Len(ret[1].chunks) = 2
    /\ Len(ret[1].chunks[1]) = 2 /\ Len(ret[1].chunks[2]) = 1

\* the prime numbers, by definition
IsPrimeNumber(n) == n >= 2 /\ \A d \in 2..(n - 1) : n % d # 0
\* the primes n with max(2, start) <= n <= end, ascending
PrimesOfRange(r) ==
    LET lo == IF r.start < 2 THEN 2 ELSE r.start
    IN SelectSeq([k \in 1..(r.end - lo + 1) |-> lo + k - 1], IsPrimeNumber)
RECURSIVE PrimesOfChunk(_)
PrimesOfChunk(chunk) ==
    IF chunk = <<>> THEN <<>> ELSE PrimesOfRange(chunk[1]) \o PrimesOfChunk(Tail(chunk))
RECURSIVE PrimesOfChunks(_)
PrimesOfChunks(cs) ==
    IF cs = <<>> THEN <<>> ELSE PrimesOfChunk(cs[1]) \o PrimesOfChunks(Tail(cs))
NumericChunk(chunk) == \A k \in 1..Len(chunk) : chunk[k].numeric
Count(s, x) == Cardinality({i \in 1..Len(s) : s[i] = x})
Elements(s) == {s[i] : i \in 1..Len(s)}
\* the list a prime report prints, <<>> when it prints none
ListedPrimes(rep) ==
    IF \E j \in 1..Len(rep) : rep[j].label = "primes"
    THEN LET j == CHOOSE j \in 1..Len(rep) : rep[j].label = "primes" IN rep[j].list
    ELSE <<>>

\* C21 (as amended): for a configuration of ranges and workerCount >= 1, a
\* chunk of numeric ranges succeeds and the primes process_chunk collects
\* for it are exactly the primes n with max(2, start) <= n <= end of its
\* ranges, range by range and ascending within a range; merge_results
\* reports the number of all primes collected by the chunks that succeeded
\* and lists the 20 smallest of them in ascending order (all of them when
\* they are at most 20; a prime of overlapping ranges once per range).
C21_PrimesFoundAndFirstListed ==
    (call # None /\ call[1].op = "execute" /\ call[1].feature = "prime" /\ ret # None) =>
        LET cs == ret[1].chunks
            rs == ret[1].results
            all == PrimesOfChunks(SelectSeq(cs, NumericChunk))
        IN /\ Len(rs) = Len(cs)
           /\ \A i \in 1..Len(cs) :
                 /\ rs[i].success <=> NumericChunk(cs[i])
                 /\ rs[i].success => rs[i].data[1].primes = PrimesOfChunk(cs[i])
           /\ ret[1].report # None
           /\ LET rep == ret[1].report[1]
                  list == ListedPrimes(rep)
              IN /\ ReportNum(rep, "Total Primes Found") = Len(all)
                 /\ Len(list) = Min2(20, Len(all))
                 /\ \A k \in 1..(Len(list) - 1) : list[k] <= list[k + 1]
                 /\ \A x \in Elements(list) \cup Elements(all) :
                       /\ Count(list, x) <= Count(all, x)
                       /\ Count(list, x) < Count(all, x) =>
                             (list # <<>> /\ list[Len(list)] <= x)

\* C21 witness: the range 1..80 was searched; the report counts its 22
\* primes and lists 20
C21_Witness ==
    /\ call # None /\ call[1].op = "execute" /\ call[1].feature = "prime"
    /\ call[1].path = ConfigFile("ok", Some(<<Range(1, 80)>>))
    /\ ret # None /\ ret[1].report # None
    /\ ReportNum(ret[1].report[1], "Total Primes Found") = 22
    /\ Len(ListedPrimes(ret[1].report[1])) = 20

\* C21 as stated: the primes process_chunk collects and merge_results lists
\* are exactly the primes n with max(2, start) <= n <= end of the ranges.
C21_ListsExactlyThePrimes ==
    (call # None /\ call[1].op = "execute" /\ call[1].feature = "prime" /\ ret # None
       /\ \A i \in 1..Len(ret[1].chunks) : NumericChunk(ret[1].chunks[i])) =>
        /\ \A i \in 1..Len(ret[1].chunks) :
              ret[1].results[i].success
              /\ ret[1].results[i].data[1].primes = PrimesOfChunk(ret[1].chunks[i])
        /\ ret[1].report # None
        /\ Elements(ListedPrimes(ret[1].report[1]))
             = Elements(PrimesOfChunks(ret[1].chunks))

\* the lines of the files that parse_log_line accepts
AcceptedLines(files) ==
    SumSeq([i \in 1..Len(files) |->
              Cardinality({k \in 1..Len(files[i].lines) :
                             parse_log_line(files[i].lines[k]) # None})])

\* C22: for any log files and workerCount >= 1, when no chunk fails the
\* total-request count of the merged report is the number of lines of all
\* the files that parse_log_line accepts.
C22_TotalIsAcceptedLines ==
    (call # None /\ call[1].op = "execute" /\ call[1].feature = "ingest" /\ ret # None
       /\ \A i \in 1..Len(ret[1].results) : ret[1].results[i].success) =>
        /\ ret[1].report # None
        /\ ReportNum(ret[1].report[1], "Total Requests")
             = AcceptedLines(call[1].path.log_files)

\* C30: merge_results treats as failed (skips with a warning) exactly the
\* JobResults whose success flag is false; every JobResult whose success
\* flag is true is aggregated, whatever its data payload is.
C30_SuccessAlwaysAggregated ==
    (call # None /\ call[1].op = "merge_results" /\ ret # None) =>
        ret[1].warnings
          = LET failed == SelectSeq(call[1].results, LAMBDA r : ~r.success)
            IN [i \in 1..Len(failed) |-> failed[i].error]

\* C27: process_batch of ThreadWorker and of ProcessWorker returns exactly
\* one entry per submitted task, in the order in which the tasks finished;
\* the entry of a task whose work raised is None, the entry of every other
\* task is what its work returned.
C27_BatchEntriesInCompletionOrder ==
    bpc = "returned" =>
        /\ Len(bresults) = Len(btasks)
        /\ Len(bfutures) = Len(btasks)
        /\ \A i \in 1..Len(bfutures) :
              /\ bfutures[i].got \in 1..Len(bresults)
              /\ bresults[bfutures[i].got]
                   = IF btasks[i] = "raises" THEN None ELSE Some(i)
        /\ \A i \in 1..Len(bfutures) : \A j \in 1..Len(bfutures) :
              bfutures[i].got < bfutures[j].got => bfutures[i].done < bfutures[j].done

====
